---- MODULE Spec2Model ----
(***************************************************************************)
(* A model of tiktok_captions.py: the font cache (get_font), the greedy    *)
(* word wrapper (wrap_text) and the caption pipeline (burn_caption).       *)
(*                                                                         *)
(* Strings are sequences of one-character strings.  Pixel contents and the *)
(* Pillow library are outside the program: an image is its size, its mode  *)
(* and the number of captions drawn on it; a font object is the file it    *)
(* was loaded from, its size and its identity; what Pillow measures a line *)
(* of text to be is given by the font's metrics.                           *)
(***************************************************************************)
EXTENDS Integers, Sequences, FiniteSets, TLC

VARIABLES
    font_files,   \* the state of each FONT_PATHS entry on disk
    font_cache,   \* _font_cache: size -> font object (the family is always "tiktok")
    next_font,    \* the number of font objects created so far (object identity)
    files,        \* the image files on disk: path -> image, NoFile or Corrupt
    pc,           \* "idle", or "returned" while the caller holds the last call's outcome
    ret,          \* the last call: its arguments, its value or exception, its locals
    tpc,          \* per thread: where it is in get_font
    tlocal        \* per thread: get_font's locals (size, font_path index, font)

vars == <<font_files, font_cache, next_font, files, pc, ret, tpc, tlocal>>

-----------------------------------------------------------------------------
(* Bounds of the model.                                                    *)

MaxTextLen == 5        \* characters of a text handed to wrap_text
MaxCaptionLen == 3     \* characters of a caption handed to burn_caption
MaxLineWidth == 4      \* max_width handed to wrap_text, in pixels
MaxSupersample == 2    \* supersample factors 1..MaxSupersample
MaxFontObjects == 4    \* font objects created in one behaviour
NumThreads == 2        \* threads calling get_font concurrently

-----------------------------------------------------------------------------
(* Arithmetic.                                                             *)

Max(a, b) == IF a >= b THEN a ELSE b
Min(a, b) == IF a <= b THEN a ELSE b

\* int(n * num / den) for n >= 0: Python's int() truncates, which is the
\* floor for the non-negative products the program forms.
IntOfRatio(n, num, den) == (n * num) \div den

\* round(n * num / den) for n >= 0, ties to the even integer (Python's round).
RoundOfRatio(n, num, den) ==
    LET q == (n * num) \div den
        r == (n * num) % den
    IN  IF 2 * r < den THEN q
        ELSE IF 2 * r > den THEN q + 1
        ELSE IF q % 2 = 0 THEN q ELSE q + 1

-----------------------------------------------------------------------------
(* Strings.                                                                *)

Letters == {"a", "b"}
Whitespace == {" ", "\n"}
Chars == Letters \cup Whitespace

RECURSIVE SeqsUpTo(_, _)
SeqsUpTo(S, n) ==
    IF n = 0 THEN {<<>>}
    ELSE LET shorter == SeqsUpTo(S, n - 1)
         IN  shorter \cup {Append(s, c) : s \in {t \in shorter : Len(t) = n - 1}, c \in S}

\* str.strip(): leading and trailing whitespace removed.
RECURSIVE LStrip(_)
LStrip(s) == IF s # <<>> /\ Head(s) \in Whitespace THEN LStrip(Tail(s)) ELSE s

RECURSIVE RStrip(_)
RStrip(s) ==
    IF s # <<>> /\ s[Len(s)] \in Whitespace THEN RStrip(SubSeq(s, 1, Len(s) - 1)) ELSE s

Strip(s) == RStrip(LStrip(s))

\* str.split(): the maximal runs of non-whitespace characters, in order.
RECURSIVE SplitFrom(_, _, _)
SplitFrom(s, word, words) ==
    IF s = <<>> THEN (IF word = <<>> THEN words ELSE Append(words, word))
    ELSE IF Head(s) \in Whitespace
         THEN SplitFrom(Tail(s), <<>>, IF word = <<>> THEN words ELSE Append(words, word))
         ELSE SplitFrom(Tail(s), Append(word, Head(s)), words)

Split(s) == SplitFrom(s, <<>>, <<>>)

\* " ".join(parts)
RECURSIVE Join(_)
Join(parts) ==
    IF parts = <<>> THEN <<>>
    ELSE IF Len(parts) = 1 THEN parts[1]
    ELSE parts[1] \o <<" ">> \o Join(Tail(parts))

\* f"{current_line} {word}".strip()
TestLine(current_line, word) == Strip(current_line \o <<" ">> \o word)

-----------------------------------------------------------------------------
(* Font metrics: what draw.textbbox measures.  A font advances by          *)
(* adv[c] * size for each glyph and pulls every word after a space back by *)
(* kern * size, so a longer line is not always a wider one.                *)

RECURSIVE CountOf(_, _)
CountOf(s, c) ==
    IF s = <<>> THEN 0 ELSE (IF Head(s) = c THEN 1 ELSE 0) + CountOf(Tail(s), c)

RECURSIVE Advance(_, _)
Advance(adv, s) == IF s = <<>> THEN 0 ELSE adv[Head(s)] + Advance(adv, Tail(s))

\* bbox = draw.textbbox((0, 0), line, font=font); bbox[2] - bbox[0]
TextWidth(font, line) ==
    font.size * Max(0, Advance(font.metrics.adv, line) - font.metrics.kern * CountOf(line, " "))

-----------------------------------------------------------------------------
(* wrap_text.                                                              *)

\* The for loop of wrap_text over the remaining words.
RECURSIVE WrapLoop(_, _, _, _, _)
WrapLoop(words, font, max_width, lines, current_line) ==
    IF words = <<>> THEN [lines |-> lines, current_line |-> current_line]
    ELSE LET word == Head(words)
             test_line == TestLine(current_line, word)
             width == TextWidth(font, test_line)
         IN  IF width <= max_width
             THEN WrapLoop(Tail(words), font, max_width, lines, test_line)
             ELSE WrapLoop(Tail(words), font, max_width,
                           IF current_line # <<>> THEN Append(lines, current_line) ELSE lines,
                           word)

\* A wrap_text whose loop measures the new word alone instead of test_line.
RECURSIVE WrapLoopMeasuresWord(_, _, _, _, _)
WrapLoopMeasuresWord(words, font, max_width, lines, current_line) ==
    IF words = <<>> THEN [lines |-> lines, current_line |-> current_line]
    ELSE LET word == Head(words)
             test_line == TestLine(current_line, word)
             width == TextWidth(font, word)
         IN  IF width <= max_width
             THEN WrapLoopMeasuresWord(Tail(words), font, max_width, lines, test_line)
             ELSE WrapLoopMeasuresWord(Tail(words), font, max_width,
                           IF current_line # <<>> THEN Append(lines, current_line) ELSE lines,
                           word)

wrap_text_measures_word(text, font, max_width) ==
    LET r == WrapLoopMeasuresWord(Split(text), font, max_width, <<>>, <<>>)
    IN  IF r.current_line # <<>> THEN Append(r.lines, r.current_line) ELSE r.lines

\* A wrap_text that forgets to flush the last line.
wrap_text_no_flush(text, font, max_width) ==
    WrapLoop(Split(text), font, max_width, <<>>, <<>>).lines

wrap_text(text, font, max_width) ==
    LET r == WrapLoop(Split(text), font, max_width, <<>>, <<>>)
    IN  IF r.current_line # <<>> THEN Append(r.lines, r.current_line) ELSE r.lines

-----------------------------------------------------------------------------
(* The state shared by the specifications.                                 *)

FONT_PATHS == 1 .. 3
FontFileStates == {"missing", "corrupt", "ok"}
Paths == {"in.png", "out.png"}
NoFile == [kind |-> "none"]
Corrupt == [kind |-> "corrupt"]
NoCall == [op |-> "none"]
EmptyCache == [s \in {} |-> 0]
Threads == 1 .. NumThreads

\* The metrics a font can have: per-glyph advances in advs, kerning in kerns.
MetricsOf(advs, kerns) ==
    {[adv |-> f, kern |-> k] : f \in [Letters \cup {" "} -> advs], k \in kerns}

Return ==
    /\ pc = "returned"
    /\ pc' = "idle"
    /\ ret' = NoCall
    /\ UNCHANGED <<font_files, font_cache, next_font, files, tpc, tlocal>>

-----------------------------------------------------------------------------
(* wrap_text called on its own, with any text, font and max_width.         *)

WrapFonts ==
    {[src |-> 1, size |-> 1, id |-> 0, metrics |-> m] : m \in MetricsOf(1 .. 2, 0 .. 2)}

Texts == SeqsUpTo(Chars, MaxTextLen)

WrapTextCall ==
    /\ pc = "idle"
    /\ \E text \in Texts, font \in WrapFonts, max_width \in 1 .. MaxLineWidth :
          ret' = [op |-> "wrap_text", text |-> text, font |-> font, max_width |-> max_width,
                  value |-> wrap_text(text, font, max_width)]
    /\ pc' = "returned"
    /\ UNCHANGED <<font_files, font_cache, next_font, files, tpc, tlocal>>

InitWrap ==
    /\ font_files = [p \in FONT_PATHS |-> "ok"]
    /\ font_cache = EmptyCache
    /\ next_font = 0
    /\ files = [p \in Paths |-> NoFile]
    /\ pc = "idle"
    /\ ret = NoCall
    /\ tpc = [t \in Threads |-> "idle"]
    /\ tlocal = [t \in Threads |-> NoCall]

NextWrap == WrapTextCall \/ Return

SpecWrap == InitWrap /\ [][NextWrap]_vars

Wrapped == pc = "returned" /\ ret.op = "wrap_text"

\* The words of the lines, in order.
RECURSIVE WordsOf(_)
WordsOf(lines) == IF lines = <<>> THEN <<>> ELSE Split(Head(lines)) \o WordsOf(Tail(lines))

\* C1: every line wrap_text returns measures at most max_width, unless the
\* line is exactly one word (which is emitted however wide it is).
C1_LinesFit ==
    Wrapped =>
        \A i \in 1 .. Len(ret.value) :
            \/ TextWidth(ret.font, ret.value[i]) <= ret.max_width
            \/ Len(Split(ret.value[i])) = 1

\* A call that returned a two-word line and a one-word line wider than max_width.
C1_Witness ==
    /\ Wrapped
    /\ \E i, j \in 1 .. Len(ret.value) :
          /\ Len(Split(ret.value[i])) = 2
          /\ Len(Split(ret.value[j])) = 1
          /\ TextWidth(ret.font, ret.value[j]) > ret.max_width

\* C2: the lines hold the input's words, whole, in order, each line being
\* its words joined by single spaces; joining the lines with single spaces
\* gives the input's words joined with single spaces; no words, no lines.
C2_WordsPreserved ==
    Wrapped =>
        /\ WordsOf(ret.value) = Split(ret.text)
        /\ \A i \in 1 .. Len(ret.value) :
              ret.value[i] # <<>> /\ ret.value[i] = Join(Split(ret.value[i]))
        /\ Join(ret.value) = Join(Split(ret.text))
        /\ (Split(ret.text) = <<>> => ret.value = <<>>)

\* A call with padded, newline-separated text that wrapped into several lines.
C2_Witness ==
    /\ Wrapped
    /\ Len(ret.value) >= 2
    /\ Len(Split(ret.text)) = 3
    /\ "\n" \in {ret.text[i] : i \in 1 .. Len(ret.text)}
    /\ ret.text # Join(Split(ret.text))

-----------------------------------------------------------------------------
(* get_font.                                                               *)

DefaultFontSize == 10   \* ImageFont.load_default() ignores the size asked for

\* font_path.exists()
Exists(file_state) == file_state # "missing"

\* ImageFont.truetype(str(font_path), size): a font, or an exception for a
\* file that does not parse and for a size that is not positive.
Truetype(file_state, size) == IF file_state = "ok" /\ size > 0 THEN "font" ELSE "error"

\* The for loop over FONT_PATHS from entry i on: the first entry that exists
\* and loads ends it; an entry that fails to load is passed over (except
\* Exception: continue).  tried lists the entries truetype was called on.
RECURSIVE ForFontPaths(_, _, _, _)
ForFontPaths(i, ffiles, size, tried) ==
    IF i \notin FONT_PATHS THEN [found |-> FALSE, tried |-> tried]
    ELSE IF ~Exists(ffiles[i]) THEN ForFontPaths(i + 1, ffiles, size, tried)
    ELSE IF Truetype(ffiles[i], size) = "font"
         THEN [found |-> TRUE, font_path |-> i, tried |-> Append(tried, i)]
         ELSE ForFontPaths(i + 1, ffiles, size, Append(tried, i))

\* A get_font that raises when no entry loads instead of falling back.
get_font_no_fallback(cache, ffiles, nid, size) ==
    LET w == ForFontPaths(1, ffiles, size, <<>>)
    IN  IF w.found
        THEN [status |-> "ok", hit |-> FALSE, tried |-> w.tried,
              font |-> [src |-> w.font_path, size |-> size, id |-> nid],
              cache |-> [s \in DOMAIN cache \cup {size} |->
                            IF s = size THEN [src |-> w.font_path, size |-> size, id |-> nid]
                            ELSE cache[s]],
              next_font |-> nid + 1]
        ELSE [status |-> "raised", hit |-> FALSE, tried |-> w.tried,
              font |-> [src |-> 0, size |-> DefaultFontSize, id |-> nid],
              cache |-> cache, next_font |-> nid]

\* A get_font that never looks its key up: it loads and stores on every call.
get_font_no_lookup(cache, ffiles, nid, size) ==
    LET w == ForFontPaths(1, ffiles, size, <<>>)
        font == [src |-> IF w.found THEN w.font_path ELSE 0,
                 size |-> IF w.found THEN size ELSE DefaultFontSize, id |-> nid]
    IN  [status |-> "ok", hit |-> FALSE, tried |-> w.tried, font |-> font,
         cache |-> IF w.found
                   THEN [s \in DOMAIN cache \cup {size} |-> IF s = size THEN font ELSE cache[s]]
                   ELSE cache,
         next_font |-> nid + 1]

\* get_font(size) in a process whose cache is cache, whose font files are
\* ffiles and which has created nid font objects: the font returned, the
\* cache and the object count afterwards.  src 0 is the built-in font.
get_font(cache, ffiles, nid, size) ==
    IF size \in DOMAIN cache
    THEN [status |-> "ok", hit |-> TRUE, tried |-> <<>>, font |-> cache[size],
          cache |-> cache, next_font |-> nid]
    ELSE LET w == ForFontPaths(1, ffiles, size, <<>>)
         IN  IF w.found
             THEN LET font == [src |-> w.font_path, size |-> size, id |-> nid]
                  IN  [status |-> "ok", hit |-> FALSE, tried |-> w.tried, font |-> font,
                       cache |-> [s \in DOMAIN cache \cup {size} |->
                                     IF s = size THEN font ELSE cache[s]],
                       next_font |-> nid + 1]
             ELSE [status |-> "ok", hit |-> FALSE, tried |-> w.tried,
                   font |-> [src |-> 0, size |-> DefaultFontSize, id |-> nid],
                   cache |-> cache, next_font |-> nid + 1]

-----------------------------------------------------------------------------
(* get_font called from one thread, any number of times, while the font    *)
(* files come and go between the calls.                                    *)

MaxFontSize == 2        \* get_font is called with the sizes 1..MaxFontSize

GetFontCall ==
    /\ pc = "idle"
    /\ \E size \in 1 .. MaxFontSize :
          LET r == get_font(font_cache, font_files, next_font, size)
          IN  /\ r.next_font <= MaxFontObjects
              /\ font_cache' = r.cache
              /\ next_font' = r.next_font
              /\ ret' = [op |-> "get_font", size |-> size, status |-> r.status, hit |-> r.hit,
                         tried |-> r.tried, value |-> r.font]
    /\ pc' = "returned"
    /\ UNCHANGED <<font_files, files, tpc, tlocal>>

FontFileChanges ==
    /\ pc = "idle"
    /\ \E p \in FONT_PATHS, st \in FontFileStates :
          /\ st # font_files[p]
          /\ font_files' = [font_files EXCEPT ![p] = st]
    /\ UNCHANGED <<font_cache, next_font, files, pc, ret, tpc, tlocal>>

InitFont ==
    /\ font_files \in [FONT_PATHS -> FontFileStates]
    /\ font_cache = EmptyCache
    /\ next_font = 0
    /\ files = [p \in Paths |-> NoFile]
    /\ pc = "idle"
    /\ ret = NoCall
    /\ tpc = [t \in Threads |-> "idle"]
    /\ tlocal = [t \in Threads |-> NoCall]

NextFont == GetFontCall \/ FontFileChanges \/ Return

SpecFont == InitFont /\ [][NextFont]_vars

GotFont == pc = "returned" /\ ret.op = "get_font"

\* The FONT_PATHS entries that exist and load at the size asked for.
Loadable(size) == {p \in FONT_PATHS : font_files[p] = "ok" /\ size > 0}

\* C7: get_font never raises.  A call that does not find its key cached
\* returns a font of the first entry of FONT_PATHS that exists and loads at
\* the size asked for, having tried to load exactly the existing entries up
\* to it, in list order; when no entry loads it returns the built-in font.
C7_FallbackChain ==
    GotFont =>
        /\ ret.status = "ok"
        /\ ~ret.hit =>
              LET first == IF Loadable(ret.size) = {} THEN 0
                           ELSE CHOOSE p \in Loadable(ret.size) : \A q \in Loadable(ret.size) : p <= q
                  upto == IF first = 0 THEN FONT_PATHS ELSE 1 .. first
              IN  /\ ret.value.src = first
                  /\ first # 0 => ret.value.size = ret.size
                  /\ {ret.tried[k] : k \in 1 .. Len(ret.tried)} = {p \in upto : font_files[p] # "missing"}
                  /\ \A k \in 1 .. Len(ret.tried) - 1 : ret.tried[k] < ret.tried[k + 1]

\* A call that passed over a missing entry and a corrupt one and loaded the
\* third, and a call that found nothing to load and got the built-in font.
C7_Witness ==
    /\ GotFont
    /\ ~ret.hit
    /\ \/ font_files[1] = "missing" /\ font_files[2] = "corrupt" /\ ret.value.src = 3
       \/ ret.value.src = 0 /\ Len(ret.tried) = 2

\* C8 as claimed: after any get_font(s) the cache holds an entry for s.
C8_AlwaysCached == (GotFont /\ ret.size > 0) => ret.size \in DOMAIN font_cache

\* C8 as amended: a get_font(s) that returns a font loaded from a file
\* leaves that font in the cache under s; one that returns the built-in
\* font leaves the cache as it was; a get_font(s) whose key is cached
\* returns the cached object without trying any file, creating any object
\* or changing the cache; no step removes or replaces a cached entry.
C8_CacheIdempotent ==
    [][ /\ \A s \in DOMAIN font_cache : s \in DOMAIN font_cache' /\ font_cache'[s] = font_cache[s]
        /\ (pc = "idle" /\ pc' = "returned" /\ ret'.op = "get_font") =>
              /\ ret'.size \in DOMAIN font_cache =>
                    /\ ret'.value = font_cache[ret'.size]
                    /\ ret'.tried = <<>>
                    /\ font_cache' = font_cache
                    /\ next_font' = next_font
              /\ ret'.value.src # 0 =>
                    /\ ret'.size \in DOMAIN font_cache'
                    /\ font_cache'[ret'.size] = ret'.value
              /\ ret'.value.src = 0 => font_cache' = font_cache
      ]_vars

\* A second get_font of a cached size, with another size cached beside it.
C8_Witness ==
    /\ GotFont
    /\ ret.hit
    /\ Cardinality(DOMAIN font_cache) = 2

-----------------------------------------------------------------------------
(* burn_caption.                                                           *)

\* TIKTOK_STYLE, the ratios as integer fractions: 0.051 = 51/1000,
\* 1.06 = 106/100, 0.88 = 88/100, 0.18 = 18/100.
TIKTOK_STYLE ==
    [font_size_ratio |-> <<51, 1000>>,
     font_size_min |-> 38,
     font_size_max |-> 60,
     line_height_ratio |-> <<106, 100>>,
     fill_color |-> "#FFFFFF",
     stroke_color |-> "#000000",
     stroke_width |-> 4,
     max_width_ratio |-> <<88, 100>>,
     margin_top_ratio |-> <<18, 100>>]

BottomMarginRatio == <<12, 100>>   \* margin = int(img_scaled.height * 0.12)

NoLocals == [kind |-> "none"]
None == "None"                     \* output_path = None
NoValue == [kind |-> "none"]       \* the call raised: the caller gets no value
PathValue(path) == [kind |-> "path", path |-> path]

\* A blank test that forgets the strip().
IsBlankNoStrip(caption) == caption = <<>>

\* not caption or not caption.strip()
IsBlank(caption) == caption = <<>> \/ Strip(caption) = <<>>

\* A font size that is never clamped.
BaseSizeUnclamped(width) ==
    IntOfRatio(width, TIKTOK_STYLE.font_size_ratio[1], TIKTOK_STYLE.font_size_ratio[2])

\* base_size = int(orig_size[0] * 0.051), then clamped to [font_size_min, font_size_max]
BaseSize(width) ==
    LET base_size == IntOfRatio(width, TIKTOK_STYLE.font_size_ratio[1],
                                TIKTOK_STYLE.font_size_ratio[2])
    IN  Max(TIKTOK_STYLE.font_size_min, Min(TIKTOK_STYLE.font_size_max, base_size))

\* A line height equal to the font size (the ratio dropped).
LineHeightIsFontSize(font_size) == font_size

\* line_height = int(font_size * 1.06)
LineHeight(font_size) ==
    IntOfRatio(font_size, TIKTOK_STYLE.line_height_ratio[1], TIKTOK_STYLE.line_height_ratio[2])

\* A start that centres the block whatever the position asked for.
StartYAlwaysCentered(position, height, total_height) == (height - total_height) \div 2

\* The first line's y on a canvas of the given (supersampled) height.
StartY(position, height, total_height) ==
    IF position = "center" THEN (height - total_height) \div 2
    ELSE IF position = "bottom"
         THEN LET margin == IntOfRatio(height, BottomMarginRatio[1], BottomMarginRatio[2])
              IN  height - margin - total_height
         ELSE IntOfRatio(height, TIKTOK_STYLE.margin_top_ratio[1],
                         TIKTOK_STYLE.margin_top_ratio[2])

\* The drawing loop: each line centred horizontally at y, then y += line_height.
RECURSIVE DrawLines(_, _, _, _, _, _)
DrawLines(lines, font, canvas_width, y, line_height, stroke_width) ==
    IF lines = <<>> THEN <<>>
    ELSE LET line == Head(lines)
             line_width == TextWidth(font, line)
             x == (canvas_width - line_width) \div 2
         IN  <<[text |-> line, x |-> x, y |-> y, fill |-> TIKTOK_STYLE.fill_color,
                stroke_width |-> stroke_width, stroke_fill |-> TIKTOK_STYLE.stroke_color]>>
             \o DrawLines(Tail(lines), font, canvas_width, y + line_height, line_height,
                          stroke_width)

\* A save that tries once more after a failure, the second try succeeding.
SaveImageRetries(fs, output_path, img_final, outcome) ==
    [status |-> "ok", io |-> IF outcome = "ok" THEN <<"save">> ELSE <<"save", "save">>,
     files |-> [fs EXCEPT ![output_path] = img_final]]

\* img_final.save(output_path, "PNG") with the outcome the file system
\* gives: "ok", "failed" (nothing written) or "truncated" (a partial file).
\* A failure is not caught: it ends burn_caption.
SaveImage(fs, output_path, img_final, outcome) ==
    IF outcome = "ok"
    THEN [status |-> "ok", io |-> <<"save">>,
          files |-> [fs EXCEPT ![output_path] = img_final]]
    ELSE [status |-> "raised", io |-> <<"save">>,
          files |-> IF outcome = "truncated" THEN [fs EXCEPT ![output_path] = Corrupt] ELSE fs]

\* burn_caption(image_path, caption, output_path, position, supersample) in
\* the world w (files, font_cache, font_files, next_font), the font's files
\* giving it the metrics w.metrics and the save ending as w.save.
burn_caption(image_path, caption, output_path, position, supersample, w) ==
    LET out == IF output_path = None THEN image_path ELSE output_path
        same == [files |-> w.files, font_cache |-> w.font_cache, next_font |-> w.next_font]
    IN  IF IsBlank(caption)
        THEN same @@ [status |-> "ok", stage |-> "blank", value |-> PathValue(image_path), io |-> <<>>,
                      locals |-> NoLocals]
        ELSE IF w.files[image_path].kind # "image"
        THEN same @@ [status |-> "raised", stage |-> "open", value |-> NoValue,
                      io |-> <<"open">>, locals |-> NoLocals]
        ELSE
        LET img == [w.files[image_path] EXCEPT !.mode = "RGBA"]
            orig_size == <<img.w, img.h>>
            scale == supersample
            img_scaled == [img EXCEPT !.w = img.w * scale, !.h = img.h * scale]
            base_size == BaseSize(orig_size[1])
            font_size == base_size * scale
            g == get_font(w.font_cache, w.font_files, w.next_font, font_size)
            font == g.font @@ [metrics |-> w.metrics]
            max_width == IntOfRatio(img_scaled.w, TIKTOK_STYLE.max_width_ratio[1],
                                    TIKTOK_STYLE.max_width_ratio[2])
            lines == wrap_text(caption, font, max_width)
            line_height == LineHeight(font_size)
            total_height == Len(lines) * line_height
            y == StartY(position, img_scaled.h, total_height)
            stroke_width == TIKTOK_STYLE.stroke_width * scale
            plan == DrawLines(lines, font, img_scaled.w, y, line_height, stroke_width)
            drawn == [img_scaled EXCEPT !.layers = @ + (IF plan = <<>> THEN 0 ELSE 1)]
            resized == [drawn EXCEPT !.w = orig_size[1], !.h = orig_size[2]]
            img_final == IF resized.mode = "RGBA" THEN [resized EXCEPT !.mode = "RGB"]
                         ELSE resized
            saved == SaveImage(w.files, out, img_final, w.save)
            locals == [orig_size |-> orig_size, canvas |-> <<img_scaled.w, img_scaled.h>>,
                       base_size |-> base_size, font_size |-> font_size, font |-> font,
                       max_width |-> max_width, lines |-> lines,
                       line_height |-> line_height, total_height |-> total_height,
                       start_y |-> y, plan |-> plan, img_final |-> img_final]
        IN  [files |-> saved.files, font_cache |-> g.cache, next_font |-> g.next_font,
             status |-> saved.status,
             stage |-> "save",
             value |-> IF saved.status = "ok" THEN PathValue(out) ELSE NoValue,
             io |-> <<"open", "get_font">> \o saved.io,
             locals |-> locals]

-----------------------------------------------------------------------------
(* One burn_caption call in a fresh process: in.png is an image of one of  *)
(* the sizes, out.png is missing or unreadable, the font cache is empty.   *)

ImageSizes == {<<200, 300>>, <<775, 1000>>, <<828, 1472>>, <<1080, 1920>>, <<2000, 1000>>}
Positions == {"upper", "center", "bottom", "top"}
SaveOutcomes == {"ok", "failed", "truncated"}
BurnFontFiles == {<<"missing", "corrupt", "ok">>, <<"missing", "missing", "missing">>}

\* A font of ordinary glyphs and one whose letters are twelve ems wide, so
\* that a caption of a few characters already wraps.
BurnMetrics ==
    {[adv |-> [c \in Letters \cup {" "} |-> 1], kern |-> 0],
     [adv |-> [c \in Letters \cup {" "} |-> IF c = " " THEN 1 ELSE 12], kern |-> 0]}

\* The captions: one letter, blanks and newlines.
Captions == SeqsUpTo({"a"} \cup Whitespace, MaxCaptionLen)

BurnCaptionCall ==
    /\ pc = "idle"
    /\ \E image_path \in Paths, output_path \in Paths \cup {None},
          caption \in Captions, position \in Positions,
          supersample \in 1 .. MaxSupersample, metrics \in BurnMetrics, save \in SaveOutcomes :
          LET r == burn_caption(image_path, caption, output_path, position, supersample,
                                [files |-> files, font_cache |-> font_cache,
                                 font_files |-> font_files, next_font |-> next_font,
                                 metrics |-> metrics, save |-> save])
          IN  /\ files' = r.files
              /\ font_cache' = r.font_cache
              /\ next_font' = r.next_font
              /\ ret' = [op |-> "burn_caption", image_path |-> image_path, caption |-> caption,
                         output_path |-> output_path, position |-> position,
                         supersample |-> supersample, save |-> save,
                         status |-> r.status, stage |-> r.stage, value |-> r.value,
                         io |-> r.io, locals |-> r.locals]
    /\ pc' = "returned"
    /\ UNCHANGED <<font_files, tpc, tlocal>>

InitBurn ==
    /\ font_files \in BurnFontFiles
    /\ font_cache = EmptyCache
    /\ next_font = 0
    /\ \E size \in ImageSizes, stale \in {NoFile, Corrupt} :
          files = [p \in Paths |->
                      IF p = "in.png"
                      THEN [kind |-> "image", w |-> size[1], h |-> size[2], mode |-> "RGB",
                            layers |-> 0]
                      ELSE stale]
    /\ pc = "idle"
    /\ ret = NoCall
    /\ tpc = [t \in Threads |-> "idle"]
    /\ tlocal = [t \in Threads |-> NoCall]

NextBurn == BurnCaptionCall

SpecBurn == InitBurn /\ [][NextBurn]_vars

Burnt == pc = "returned" /\ ret.op = "burn_caption"
Rendered == Burnt /\ ret.stage = "save"


AllWhitespace(caption) == \A i \in 1 .. Len(caption) : caption[i] \in Whitespace

\* C3: a burn_caption whose caption is empty or all whitespace opens,
\* renders and writes nothing, whatever the position, the supersample
\* factor and the output path: the files, the font cache and the font
\* objects are as before, the call raises nothing and returns image_path,
\* which names what it named before the call.
C3_BlankNoOp ==
    [][ (pc = "idle" /\ pc' = "returned" /\ ret'.op = "burn_caption"
            /\ AllWhitespace(ret'.caption)) =>
           /\ files' = files
           /\ font_cache' = font_cache
           /\ next_font' = next_font
           /\ ret'.io = <<>>
           /\ ret'.status = "ok"
           /\ ret'.value = [kind |-> "path", path |-> ret'.image_path]
           /\ files'[ret'.value.path] = files[ret'.image_path]
      ]_vars

\* A call with a caption of a blank and a newline, another output path, at
\* the bottom and supersampled twice.
C3_Witness ==
    /\ Burnt
    /\ ret.caption = <<" ", "\n">>
    /\ ret.image_path = "in.png"
    /\ ret.output_path = "out.png"
    /\ ret.position = "bottom"
    /\ ret.supersample = 2
    /\ files["in.png"].kind = "image"

\* C4 as claimed: base size = clamp(round(W * 0.051), 38, 60).
C4_RoundedClamp ==
    Rendered =>
        LET raw == RoundOfRatio(ret.locals.orig_size[1], 51, 1000)
        IN  ret.locals.base_size = (IF raw < 38 THEN 38 ELSE IF raw > 60 THEN 60 ELSE raw)

\* C4 as amended: for an image of width W the base font size, before the
\* supersample factor multiplies it, is clamp(floor(W * 0.051), 38, 60),
\* and so lies in [38, 60]; the font asked of get_font has that size times
\* the supersample factor.
C4_FlooredClamp ==
    Rendered =>
        LET raw == (ret.locals.orig_size[1] * 51) \div 1000
        IN  /\ ret.locals.base_size = (IF raw < 38 THEN 38 ELSE IF raw > 60 THEN 60 ELSE raw)
            /\ ret.locals.base_size >= 38
            /\ ret.locals.base_size <= 60
            /\ ret.locals.font_size = ret.locals.base_size * ret.supersample

\* A width whose 5.1% is 39.525: inside the clamp, and floored to 39.
C4_Witness ==
    /\ Rendered
    /\ ret.locals.orig_size[1] = 775
    /\ ret.locals.base_size = 39

UpperMode == ret.position \notin {"center", "bottom"}

\* C5 as claimed: in the upper mode the first line is at
\* round(canvas height * 0.18), which for a 1080x1920 image is y = 346 in
\* output coordinates.
C5_RoundedTop ==
    (Rendered /\ UpperMode) =>
        /\ ret.locals.start_y = RoundOfRatio(ret.locals.canvas[2], 18, 100)
        /\ ret.locals.orig_size = <<1080, 1920>> => ret.locals.start_y = 346 * ret.supersample

\* C5 as amended: in the upper mode (the default and any position other
\* than center and bottom) the first line is drawn at
\* floor(canvas height * 0.18), the canvas being the supersampled one,
\* whatever the caption and the number of lines.
C5_FlooredTop ==
    (Rendered /\ UpperMode) =>
        /\ ret.locals.start_y = (ret.locals.orig_size[2] * ret.supersample * 18) \div 100
        /\ ret.locals.plan # <<>>
        /\ ret.locals.plan[1].y = ret.locals.start_y

\* A 1080x1920 image captioned in two lines with a position that is none of
\* the three names, supersampled twice: the block starts at 691, which is
\* 345.5 in output coordinates.
C5_Witness ==
    /\ Rendered
    /\ ret.position = "top"
    /\ ret.locals.orig_size = <<1080, 1920>>
    /\ ret.supersample = 2
    /\ Len(ret.locals.lines) = 2
    /\ ret.locals.start_y = 691

\* The y of each line of the plan, given where the first is and what
\* separates them.
PlanFollows(line_height) ==
    /\ Len(ret.locals.plan) = Len(ret.locals.lines)
    /\ ret.locals.total_height = Len(ret.locals.lines) * line_height
    /\ \A i \in 1 .. Len(ret.locals.plan) :
          /\ ret.locals.plan[i].text = ret.locals.lines[i]
          /\ ret.locals.plan[i].y = ret.locals.start_y + (i - 1) * line_height

\* C6 as claimed: line height = round(font size * 1.06), the block is
\* line_count times that, line i is at start_y + i * line height.
C6_RoundedLineHeight ==
    Rendered =>
        /\ ret.locals.line_height = RoundOfRatio(ret.locals.font_size, 106, 100)
        /\ PlanFollows(RoundOfRatio(ret.locals.font_size, 106, 100))

\* C6 as amended: in every placement mode the line height is
\* floor(font size * 1.06), the font size being the supersampled one; the
\* block height is line_count times that line height; line i (from 0) is
\* drawn at start_y + i times that line height.
C6_FlooredLineHeight ==
    Rendered =>
        /\ ret.locals.line_height = (ret.locals.font_size * 106) \div 100
        /\ PlanFollows((ret.locals.font_size * 106) \div 100)

\* Two lines anchored at the bottom in a font of 110 pixels, whose line
\* height 116.6 is floored to 116.
C6_Witness ==
    /\ Rendered
    /\ ret.position = "bottom"
    /\ Len(ret.locals.lines) = 2
    /\ ret.locals.font_size = 110
    /\ ret.locals.line_height = 116
    /\ ret.locals.plan[2].y = ret.locals.start_y + 116

SaveFailed == Rendered /\ ret.save # "ok"

Saves == Cardinality({i \in 1 .. Len(ret.io) : ret.io[i] = "save"})

\* C9 as claimed: a failed write is raised to the caller, is not tried
\* again, and the caller still gets the rendered image.
C9_ResultSurvives ==
    SaveFailed =>
        /\ ret.status = "raised"
        /\ Saves = 1
        /\ ret.value = ret.locals.img_final

\* C9 as amended: a failed write is raised to the caller and is not tried
\* again; the call returns nothing, neither the output path nor the
\* rendered image, which was a local of the call.
C9_WriteFailurePropagates ==
    SaveFailed =>
        /\ ret.status = "raised"
        /\ ret.stage = "save"
        /\ Saves = 1
        /\ ret.value = NoValue

\* A caption rendered in two lines whose write fails.
C9_Witness ==
    /\ SaveFailed
    /\ ret.save = "failed"
    /\ Len(ret.locals.plan) = 2
    /\ ret.locals.img_final.layers = 1

-----------------------------------------------------------------------------
(* get_font called from several threads.  The interpreter runs one thread  *)
(* at a time but may switch threads between any two steps of get_font: the *)
(* lookup, each truetype call, the store into the cache.  get_font takes   *)
(* no lock.                                                                *)

NoFont == [src |-> -1, size |-> 0, id |-> -1]

\* A thread calls get_font(size).
ThreadCalls(t) ==
    /\ tpc[t] = "idle"
    /\ \E size \in 1 .. MaxFontSize :
          tlocal' = [tlocal EXCEPT ![t] = [size |-> size, font_path |-> 1, font |-> NoFont]]
    /\ tpc' = [tpc EXCEPT ![t] = "lookup"]
    /\ UNCHANGED <<font_files, font_cache, next_font, files, pc, ret>>

\* if cache_key in _font_cache: return _font_cache[cache_key]
ThreadLooksUp(t) ==
    /\ tpc[t] = "lookup"
    /\ IF tlocal[t].size \in DOMAIN font_cache
       THEN /\ tlocal' = [tlocal EXCEPT ![t].font = font_cache[tlocal[t].size]]
            /\ tpc' = [tpc EXCEPT ![t] = "done"]
       ELSE /\ tpc' = [tpc EXCEPT ![t] = "walk"]
            /\ UNCHANGED tlocal
    /\ UNCHANGED <<font_files, font_cache, next_font, files, pc, ret>>

\* One turn of the for loop: the entry is missing or fails to load (on to
\* the next), or truetype returns a font; after the last entry, the fallback.
ThreadTriesPath(t) ==
    /\ tpc[t] = "walk"
    /\ LET i == tlocal[t].font_path
       IN  IF i \notin FONT_PATHS
           THEN /\ tpc' = [tpc EXCEPT ![t] = "fallback"]
                /\ UNCHANGED <<tlocal, next_font>>
           ELSE IF Exists(font_files[i]) /\ Truetype(font_files[i], tlocal[t].size) = "font"
           THEN /\ next_font < MaxFontObjects
                /\ tlocal' = [tlocal EXCEPT ![t].font =
                                 [src |-> i, size |-> tlocal[t].size, id |-> next_font]]
                /\ next_font' = next_font + 1
                /\ tpc' = [tpc EXCEPT ![t] = "insert"]
           ELSE /\ tlocal' = [tlocal EXCEPT ![t].font_path = i + 1]
                /\ UNCHANGED <<tpc, next_font>>
    /\ UNCHANGED <<font_files, font_cache, files, pc, ret>>

\* _font_cache[cache_key] = font; return font
ThreadInserts(t) ==
    /\ tpc[t] = "insert"
    /\ font_cache' = [s \in DOMAIN font_cache \cup {tlocal[t].size} |->
                         IF s = tlocal[t].size THEN tlocal[t].font ELSE font_cache[s]]
    /\ tpc' = [tpc EXCEPT ![t] = "done"]
    /\ UNCHANGED <<font_files, next_font, files, pc, ret, tlocal>>

\* return ImageFont.load_default()
ThreadFallsBack(t) ==
    /\ tpc[t] = "fallback"
    /\ next_font < MaxFontObjects
    /\ tlocal' = [tlocal EXCEPT ![t].font =
                     [src |-> 0, size |-> DefaultFontSize, id |-> next_font]]
    /\ next_font' = next_font + 1
    /\ tpc' = [tpc EXCEPT ![t] = "done"]
    /\ UNCHANGED <<font_files, font_cache, files, pc, ret>>

\* The caller drops the font it was given.
ThreadReturns(t) ==
    /\ tpc[t] = "done"
    /\ tpc' = [tpc EXCEPT ![t] = "idle"]
    /\ tlocal' = [tlocal EXCEPT ![t] = NoCall]
    /\ UNCHANGED <<font_files, font_cache, next_font, files, pc, ret>>

InitThreads ==
    /\ font_files \in [FONT_PATHS -> FontFileStates]
    /\ font_cache = EmptyCache
    /\ next_font = 0
    /\ files = [p \in Paths |-> NoFile]
    /\ pc = "idle"
    /\ ret = NoCall
    /\ tpc = [t \in Threads |-> "idle"]
    /\ tlocal = [t \in Threads |-> NoCall]

NextThreads ==
    \E t \in Threads :
        \/ ThreadCalls(t)
        \/ ThreadLooksUp(t)
        \/ ThreadTriesPath(t)
        \/ ThreadInserts(t)
        \/ ThreadFallsBack(t)
        \/ ThreadReturns(t)

SpecThreads == InitThreads /\ [][NextThreads]_vars

\* get_font has returned to thread t a font loaded from a file (by this
\* call or, through the cache, by an earlier one).
HoldsLoadedFont(t) == tpc[t] = "done" /\ tlocal[t].font.src > 0

\* C10: under every interleaving the font of a key is loaded at most once
\* and every caller of that key gets the same object: no two threads hold
\* different font objects for one size.
C10_SingleLoad ==
    \A t1, t2 \in Threads :
        (HoldsLoadedFont(t1) /\ HoldsLoadedFont(t2) /\ tlocal[t1].size = tlocal[t2].size)
            => tlocal[t1].font = tlocal[t2].font

====
